---- MODULE Spec2Model ----
(***************************************************************************)
(* Model of package pairing (src/pair.go): the Pairs key store with its    *)
(* two indexes (devices, keys) over shared *keyInfo records, the mutex mu, *)
(* and the two operations Generate and GetDeviceID.                        *)
(*                                                                         *)
(* Time is counted in minutes.  Strings are TLA+ strings, "" is Go's zero  *)
(* string.  A *keyInfo pointer is an address into heap.                    *)
(***************************************************************************)
EXTENDS Integers, Sequences, FiniteSets, TLC

VARIABLES
    Dictionary,   \* Pairs.Dictionary: sequence of one-character strings
    Length,       \* Pairs.Length
    Expire,       \* Pairs.Expire
    MaxIter,      \* Pairs.MaxIter
    devicesNil,   \* Pairs.devices == nil
    keysNil,      \* Pairs.keys == nil
    devices,      \* Pairs.devices: deviceID -> address of keyInfo
    keys,         \* Pairs.keys: key -> address of keyInfo
    heap,         \* address -> keyInfo, the records reachable from the indexes
    mu,           \* Pairs.mu: the caller holding the lock, or NoOwner
    now,          \* the clock read by time.Now / time.Since
    procs,        \* the callers that issue calls in this run
    pc,           \* position of each caller
    arg,          \* argument of the running call (deviceID of Generate, key of GetDeviceID)
    i,            \* Generate's loop counter i
    key,          \* Generate's named result key
    deviceID,     \* GetDeviceID's named result deviceID
    pre,          \* history: the indexes as they were when the running call took the lock
    trail,        \* history: the Generate calls completed since the last GetDeviceID
    issued,       \* history: key -> device and time of the Generate that stored it last
    redeemed,     \* history: keys passed to GetDeviceID since they were stored last
    drawn,        \* history: the strings Dictionary.Generate has returned so far
    repeated      \* history: Dictionary.Generate has returned some string twice

vars == <<Dictionary, Length, Expire, MaxIter, devicesNil, keysNil, devices,
          keys, heap, mu, now, procs, pc, arg, i, key, deviceID, pre, trail, issued,
          redeemed, drawn, repeated>>

config == <<Dictionary, Length, Expire, MaxIter>>
store == <<devicesNil, keysNil, devices, keys, heap>>
locals == <<arg, i, key, deviceID>>
history == <<pre, trail, issued, redeemed, drawn, repeated>>

----------------------------------------------------------------------------
(* Bounds of the model *)

MaxTime == 40

TrailLen == 2

TickSteps == {10}

Procs == {"p1", "p2"}

DeviceIDs == {"d1", "d2"}

KeyArgs == {"A", "B", "AAAAAA", "nonexistent"}

\* configurations a Pairs value is constructed with (0 / <<>> = field not set)
Configs ==
    { [Dictionary |-> <<"A">>, Length |-> 0, Expire |-> 0,  MaxIter |-> 2],
      [Dictionary |-> <<>>,    Length |-> 1, Expire |-> 20, MaxIter |-> 2],
      [Dictionary |-> <<"A">>, Length |-> 1, Expire |-> 20, MaxIter |-> 0] }

\* configurations of the runs with concurrent callers
ConcConfigs ==
    { [Dictionary |-> <<"A">>, Length |-> 0, Expire |-> 0,  MaxIter |-> 2],
      [Dictionary |-> <<>>,    Length |-> 1, Expire |-> 20, MaxIter |-> 2] }

\* configuration of the runs under fair scheduling
FairConfigs ==
    { [Dictionary |-> <<"A">>, Length |-> 1, Expire |-> 20, MaxIter |-> 2] }

----------------------------------------------------------------------------
(* Program constants *)

DefaultLength == 6

DefaultExpire == 30

DefaultMaxIter == 1000

DictAlfa == <<"A", "B">>

NoOwner == "unlocked"

EmptyMap == [x \in {} |-> 0]

NoSnapshot == [devices |-> EmptyMap, keys |-> EmptyMap, heap |-> EmptyMap, now |-> 0]

----------------------------------------------------------------------------
(* Helpers *)

\* delete(m, k) of Go: no-op when k is absent
MapDelete(m, k) == [x \in DOMAIN m \ {k} |-> m[x]]

\* m[k] = v of Go
MapSet(m, k, v) == [x \in DOMAIN m \cup {k} |-> IF x = k THEN v ELSE m[x]]

Range(f) == {f[x] : x \in DOMAIN f}

\* the records still referenced by one of the two indexes (garbage collection)
Collect(h, devs, ks) == [a \in DOMAIN h \cap (Range(devs) \cup Range(ks)) |-> h[a]]

\* address of a freshly allocated keyInfo
NewAddr(h) == CHOOSE a \in 1..(Cardinality(DOMAIN h) + 1) : a \notin DOMAIN h

\* every string Dictionary.Generate(length) can return
RECURSIVE DictionaryGenerate(_, _)
DictionaryGenerate(dict, length) ==
    IF length = 0 THEN {""}
    ELSE {s \o dict[j] : s \in DictionaryGenerate(dict, length - 1), j \in 1..Len(dict)}

\* variant of Alive: a record of age exactly expire still counts as valid
AliveInclusive(kInfo, t, expire) == t - kInfo.Time <= expire

\* time.Since(kInfo.Time) < p.Expire
Alive(kInfo, t, expire) == t - kInfo.Time < expire

\* variant of Purge: delete(p.devices, kInfo.DeviceID) is missing
PurgeKeysOnly(devs, ks, h, kInfo) ==
    LET ks1 == MapDelete(ks, kInfo.Key)
    IN [devices |-> devs, keys |-> ks1, heap |-> Collect(h, devs, ks1)]

\* delete(p.keys, kInfo.Key); delete(p.devices, kInfo.DeviceID)
Purge(devs, ks, h, kInfo) ==
    LET ks1 == MapDelete(ks, kInfo.Key)
        devs1 == MapDelete(devs, kInfo.DeviceID)
    IN [devices |-> devs1, keys |-> ks1, heap |-> Collect(h, devs1, ks1)]

\* variant of Insert: p.devices[deviceID] = kInfo is missing
InsertKeysOnly(devs, ks, h, kInfo) ==
    LET a == NewAddr(h)
    IN [devices |-> devs, keys |-> MapSet(ks, kInfo.Key, a), heap |-> MapSet(h, a, kInfo)]

\* kInfo := &keyInfo{...}; p.devices[deviceID] = kInfo; p.keys[key] = kInfo
Insert(devs, ks, h, kInfo) ==
    LET a == NewAddr(h)
    IN [devices |-> MapSet(devs, kInfo.DeviceID, a),
        keys |-> MapSet(ks, kInfo.Key, a),
        heap |-> MapSet(h, a, kInfo)]

\* variant of Supersede: the device's previous record is left in place
SupersedeSkipped(devs, ks, h, d) == [devices |-> devs, keys |-> ks, heap |-> h]

\* Generate: the device's previous record is deleted before the retry loop
Supersede(devs, ks, h, d) ==
    IF d \in DOMAIN devs
    THEN Purge(devs, ks, h, h[devs[d]])
    ELSE [devices |-> devs, keys |-> ks, heap |-> h]

\* variant of Attempt: the new record is bound to the device before the
\* candidate is looked up in the key index
AttemptEarlyBind(devs, ks, h, d, cand, t, expire) ==
    IF cand \in DOMAIN ks /\ Alive(h[ks[cand]], t, expire)
    THEN LET a == NewAddr(h)
         IN [devices |-> MapSet(devs, d, a), keys |-> ks,
             heap |-> MapSet(h, a, [DeviceID |-> d, Key |-> cand, Time |-> t]),
             stored |-> FALSE]
    ELSE LET st == IF cand \in DOMAIN ks
                   THEN Purge(devs, ks, h, h[ks[cand]])
                   ELSE [devices |-> devs, keys |-> ks, heap |-> h]
             new == Insert(st.devices, st.keys, st.heap,
                           [DeviceID |-> d, Key |-> cand, Time |-> t])
         IN [devices |-> new.devices, keys |-> new.keys, heap |-> new.heap,
             stored |-> TRUE]

\* variant of Attempt: a colliding record is replaced whatever its age
AttemptOverwrite(devs, ks, h, d, cand, t, expire) ==
    LET st == IF cand \in DOMAIN ks
              THEN Purge(devs, ks, h, h[ks[cand]])
              ELSE [devices |-> devs, keys |-> ks, heap |-> h]
        new == Insert(st.devices, st.keys, st.heap,
                      [DeviceID |-> d, Key |-> cand, Time |-> t])
    IN [devices |-> new.devices, keys |-> new.keys, heap |-> new.heap, stored |-> TRUE]

\* Generate: the body of one iteration of the retry loop, for candidate cand
\* rendered at time t; stored = FALSE is the continue, stored = TRUE the break
Attempt(devs, ks, h, d, cand, t, expire) ==
    IF cand \in DOMAIN ks /\ Alive(h[ks[cand]], t, expire)
    THEN [devices |-> devs, keys |-> ks, heap |-> h, stored |-> FALSE]
    ELSE LET st == IF cand \in DOMAIN ks
                   THEN Purge(devs, ks, h, h[ks[cand]])
                   ELSE [devices |-> devs, keys |-> ks, heap |-> h]
             new == Insert(st.devices, st.keys, st.heap,
                           [DeviceID |-> d, Key |-> cand, Time |-> t])
         IN [devices |-> new.devices, keys |-> new.keys, heap |-> new.heap,
             stored |-> TRUE]

\* variant of Lookup: a valid key is reported without being consumed
LookupPeek(devs, ks, h, k, t, expire) ==
    IF k \in DOMAIN ks /\ Alive(h[ks[k]], t, expire)
    THEN [devices |-> devs, keys |-> ks, heap |-> h, deviceID |-> h[ks[k]].DeviceID]
    ELSE IF k \in DOMAIN ks
         THEN LET st == Purge(devs, ks, h, h[ks[k]])
              IN [devices |-> st.devices, keys |-> st.keys, heap |-> st.heap,
                  deviceID |-> ""]
         ELSE [devices |-> devs, keys |-> ks, heap |-> h, deviceID |-> ""]

\* variant of Lookup: the record is deleted only when it is still valid
LookupKeepExpired(devs, ks, h, k, t, expire) ==
    IF k \in DOMAIN ks /\ Alive(h[ks[k]], t, expire)
    THEN LET st == Purge(devs, ks, h, h[ks[k]])
         IN [devices |-> st.devices, keys |-> st.keys, heap |-> st.heap,
             deviceID |-> h[ks[k]].DeviceID]
    ELSE [devices |-> devs, keys |-> ks, heap |-> h, deviceID |-> ""]

\* variant of Lookup: a miss sweeps the expired records out of both indexes
LookupSweep(devs, ks, h, k, t, expire) ==
    IF k \in DOMAIN ks
    THEN LET kInfo == h[ks[k]]
             st == Purge(devs, ks, h, kInfo)
         IN [devices |-> st.devices, keys |-> st.keys, heap |-> st.heap,
             deviceID |-> IF Alive(kInfo, t, expire) THEN kInfo.DeviceID ELSE ""]
    ELSE LET live == {a \in DOMAIN h : Alive(h[a], t, expire)}
         IN [devices |-> [x \in {y \in DOMAIN devs : devs[y] \in live} |-> devs[x]],
             keys |-> [x \in {y \in DOMAIN ks : ks[y] \in live} |-> ks[x]],
             heap |-> [a \in live |-> h[a]],
             deviceID |-> ""]

\* variant of Lookup: a hit also clears the expired records out of both indexes
LookupPurgeStale(devs, ks, h, k, t, expire) ==
    IF k \in DOMAIN ks
    THEN LET kInfo == h[ks[k]]
             live == {a \in DOMAIN h : a # ks[k] /\ Alive(h[a], t, expire)}
         IN [devices |-> [x \in {y \in DOMAIN devs : devs[y] \in live} |-> devs[x]],
             keys |-> [x \in {y \in DOMAIN ks : ks[y] \in live} |-> ks[x]],
             heap |-> [a \in live |-> h[a]],
             deviceID |-> IF Alive(kInfo, t, expire) THEN kInfo.DeviceID ELSE ""]
    ELSE [devices |-> devs, keys |-> ks, heap |-> h, deviceID |-> ""]

\* GetDeviceID between Lock and Unlock, for key k looked up at time t
Lookup(devs, ks, h, k, t, expire) ==
    IF k \in DOMAIN ks
    THEN LET kInfo == h[ks[k]]
             st == Purge(devs, ks, h, kInfo)
         IN [devices |-> st.devices, keys |-> st.keys, heap |-> st.heap,
             deviceID |-> IF Alive(kInfo, t, expire) THEN kInfo.DeviceID ELSE ""]
    ELSE [devices |-> devs, keys |-> ks, heap |-> h, deviceID |-> ""]

\* every record of the store is younger than expire at time t
AllAlive(h, t, expire) == \A a \in DOMAIN h : Alive(h[a], t, expire)

\* the last n entries of a sequence
LastN(s, n) == IF Len(s) <= n THEN s ELSE SubSeq(s, Len(s) - n + 1, Len(s))

\* variant of OrDefault: the field is set to its default whatever it held
OrDefaultAlways(value, unset, default) == default

\* if p.Field == 0 { p.Field = default }
OrDefault(value, unset, default) == IF value = unset THEN default ELSE value

\* variant of Lock: the caller does not wait for the lock to be free
LockBarging(p) == mu' = p

\* variant of Unlock: the lock is not released
UnlockMissing(p) == mu = p /\ mu' = p

\* p.mu.Lock() by caller p: blocks while another caller holds the lock
Lock(p) == mu = NoOwner /\ mu' = p

\* p.mu.Unlock() by caller p
Unlock(p) == mu = p /\ mu' = NoOwner

----------------------------------------------------------------------------
\* a Pairs value as constructed, with the given callers about to use it
Start(callers, cfgs) ==
    /\ \E c \in cfgs :
          /\ Dictionary = c.Dictionary
          /\ Length = c.Length
          /\ Expire = c.Expire
          /\ MaxIter = c.MaxIter
    /\ devicesNil = TRUE
    /\ keysNil = TRUE
    /\ devices = EmptyMap
    /\ keys = EmptyMap
    /\ heap = EmptyMap
    /\ mu = NoOwner
    /\ now = 0
    /\ procs = callers
    /\ pc = [p \in Procs |-> "idle"]
    /\ arg = [p \in Procs |-> ""]
    /\ i = [p \in Procs |-> 0]
    /\ key = [p \in Procs |-> ""]
    /\ deviceID = [p \in Procs |-> ""]
    /\ pre = NoSnapshot
    /\ trail = <<>>
    /\ issued = EmptyMap
    /\ redeemed = {}
    /\ drawn = {}
    /\ repeated = FALSE

\* one caller: the calls follow one another
Init == Start({"p1"}, Configs)

\* all callers: the calls run concurrently
InitConc == Start(Procs, ConcConfigs)

\* all callers, scheduled fairly
InitFair == Start(Procs, FairConfigs)

\* time passes
Tick ==
    /\ \E dt \in TickSteps :
          /\ now + dt <= MaxTime
          /\ now' = now + dt
    /\ trail' = [n \in DOMAIN trail |->
                    [trail[n] EXCEPT !.fresh = @ /\ AllAlive(heap, now', Expire)]]
    /\ UNCHANGED <<config, store, mu, procs, pc, locals, pre, issued, redeemed, drawn,
                   repeated>>

\* a caller calls Generate(d) and reaches p.mu.Lock()
CallGenerate(p, d) ==
    /\ pc[p] = "idle"
    /\ pc' = [pc EXCEPT ![p] = "gen_lock"]
    /\ arg' = [arg EXCEPT ![p] = d]
    /\ key' = [key EXCEPT ![p] = ""]
    /\ i' = [i EXCEPT ![p] = 0]
    /\ UNCHANGED <<config, store, mu, now, procs, deviceID, history>>

\* Generate, from p.mu.Lock() to the start of the retry loop
GenerateBegin(p) ==
    /\ pc[p] = "gen_lock"
    /\ Lock(p)
    /\ devicesNil' = FALSE
    /\ keysNil' = FALSE
    /\ Dictionary' = OrDefault(Dictionary, <<>>, DictAlfa)
    /\ Length' = OrDefault(Length, 0, DefaultLength)
    /\ Expire' = OrDefault(Expire, 0, DefaultExpire)
    /\ MaxIter' = OrDefault(MaxIter, 0, DefaultMaxIter)
    /\ LET st == Supersede(devices, keys, heap, arg[p])
       IN /\ devices' = st.devices
          /\ keys' = st.keys
          /\ heap' = st.heap
    /\ i' = [i EXCEPT ![p] = 0]
    /\ pc' = [pc EXCEPT ![p] = IF 0 < MaxIter' THEN "gen_loop" ELSE "gen_unlock"]
    /\ pre' = [devices |-> devices, keys |-> keys, heap |-> heap, now |-> now]
    /\ issued' = [k \in {x \in DOMAIN issued : issued[x].DeviceID # arg[p]} |-> issued[k]]
    /\ UNCHANGED <<now, procs, arg, key, deviceID, trail, redeemed, drawn, repeated>>

\* one iteration of Generate's retry loop, with candidate cand
GenerateAttempt(p) ==
    /\ pc[p] = "gen_loop"
    /\ mu = p
    /\ \E cand \in DictionaryGenerate(Dictionary, Length) :
          LET st == Attempt(devices, keys, heap, arg[p], cand, now, Expire)
          IN /\ key' = [key EXCEPT ![p] = cand]
             /\ drawn' = drawn \cup {cand}
             /\ repeated' = (repeated \/ cand \in drawn)
             /\ devices' = st.devices
             /\ keys' = st.keys
             /\ heap' = st.heap
             /\ IF st.stored
                THEN \* break
                     /\ pc' = [pc EXCEPT ![p] = "gen_unlock"]
                     /\ issued' = MapSet(issued, cand, [DeviceID |-> arg[p], Time |-> now])
                     /\ redeemed' = redeemed \ {cand}
                     /\ UNCHANGED i
                ELSE \* continue
                     /\ i' = [i EXCEPT ![p] = i[p] + 1]
                     /\ pc' = [pc EXCEPT ![p] = IF i[p] + 1 < MaxIter THEN "gen_loop"
                                                                       ELSE "gen_unlock"]
                     /\ UNCHANGED <<issued, redeemed>>
    /\ UNCHANGED <<config, devicesNil, keysNil, mu, now, procs, arg, deviceID, pre, trail>>

\* Generate: p.mu.Unlock() and return key
GenerateReturn(p) ==
    /\ pc[p] = "gen_unlock"
    /\ Unlock(p)
    /\ pc' = [pc EXCEPT ![p] = "idle"]
    /\ trail' = LastN(Append(trail, [DeviceID |-> arg[p], Key |-> key[p],
                                     stored |-> i[p] < MaxIter,
                                     fresh |-> AllAlive(heap, now, Expire)]), TrailLen)
    /\ arg' = [arg EXCEPT ![p] = ""]
    /\ key' = [key EXCEPT ![p] = ""]
    /\ i' = [i EXCEPT ![p] = 0]
    /\ pre' = NoSnapshot
    /\ UNCHANGED <<config, store, now, procs, deviceID, issued, redeemed, drawn, repeated>>

\* a caller calls GetDeviceID(k) and reaches p.mu.Lock()
CallGetDeviceID(p, k) ==
    /\ pc[p] = "idle"
    /\ pc' = [pc EXCEPT ![p] = "get_lock"]
    /\ arg' = [arg EXCEPT ![p] = k]
    /\ deviceID' = [deviceID EXCEPT ![p] = ""]
    /\ UNCHANGED <<config, store, mu, now, procs, i, key, history>>

\* GetDeviceID, from p.mu.Lock() to just before p.mu.Unlock()
GetDeviceIDBody(p) ==
    /\ pc[p] = "get_lock"
    /\ Lock(p)
    /\ LET st == Lookup(devices, keys, heap, arg[p], now, Expire)
       IN /\ devices' = st.devices
          /\ keys' = st.keys
          /\ heap' = st.heap
          /\ deviceID' = [deviceID EXCEPT ![p] = st.deviceID]
    /\ pc' = [pc EXCEPT ![p] = "get_unlock"]
    /\ pre' = [devices |-> devices, keys |-> keys, heap |-> heap, now |-> now]
    /\ issued' = MapDelete(issued, arg[p])
    /\ redeemed' = IF arg[p] \in DOMAIN issued THEN redeemed \cup {arg[p]} ELSE redeemed
    /\ UNCHANGED <<config, devicesNil, keysNil, now, procs, arg, i, key, trail, drawn,
                   repeated>>

\* GetDeviceID: p.mu.Unlock() and return deviceID
GetDeviceIDReturn(p) ==
    /\ pc[p] = "get_unlock"
    /\ Unlock(p)
    /\ pc' = [pc EXCEPT ![p] = "idle"]
    /\ trail' = <<>>
    /\ arg' = [arg EXCEPT ![p] = ""]
    /\ deviceID' = [deviceID EXCEPT ![p] = ""]
    /\ pre' = NoSnapshot
    /\ UNCHANGED <<config, store, now, procs, i, key, issued, redeemed, drawn, repeated>>

Next ==
    \/ Tick
    \/ \E p \in procs, d \in DeviceIDs : CallGenerate(p, d)
    \/ \E p \in procs : GenerateBegin(p)
    \/ \E p \in procs : GenerateAttempt(p)
    \/ \E p \in procs : GenerateReturn(p)
    \/ \E p \in procs, k \in KeyArgs : CallGetDeviceID(p, k)
    \/ \E p \in procs : GetDeviceIDBody(p)
    \/ \E p \in procs : GetDeviceIDReturn(p)

Spec == Init /\ [][Next]_vars

SpecConc == InitConc /\ [][Next]_vars

\* the Go scheduler eventually runs every runnable goroutine, so the steps of
\* the caller holding the lock are weakly fair; sync.Mutex hands the lock to a
\* waiter that has been starved (starvation mode), so taking the lock is
\* strongly fair
Fairness ==
    \A p \in Procs :
       /\ SF_vars(GenerateBegin(p))
       /\ WF_vars(GenerateAttempt(p))
       /\ WF_vars(GenerateReturn(p))
       /\ SF_vars(GetDeviceIDBody(p))
       /\ WF_vars(GetDeviceIDReturn(p))

SpecFair == InitFair /\ [][Next]_vars /\ Fairness

----------------------------------------------------------------------------
(* Vocabulary of the properties *)

\* caller p is about to return from Generate: key[p] is the value returned
GenerateReturning(p) == pc[p] = "gen_unlock"

\* ... and every attempt of the call ran into a record younger than Expire
GenerateExhausted(p) == pc[p] = "gen_unlock" /\ i[p] >= MaxIter

\* caller p is about to return from GetDeviceID: deviceID[p] is the value returned
GetDeviceIDReturning(p) == pc[p] = "get_unlock"

\* the step in which caller p runs GetDeviceID's critical section
GetDeviceIDStep(p) == pc[p] = "get_lock" /\ pc'[p] = "get_unlock"

\* the devices of the entries m..n of the trail are pairwise distinct
DistinctDevices(m, n) ==
    \A a, b \in m..n : a # b => trail[a].DeviceID # trail[b].DeviceID

----------------------------------------------------------------------------
(* C1: a Generate call whose MaxIter candidates all collided with a record
   younger than Expire returns the empty string. *)
C1_ExhaustedReturnsEmpty ==
    \A p \in Procs : GenerateExhausted(p) => key[p] = ""

(* C2: in a sequence of Generate calls for pairwise distinct devices, with no
   GetDeviceID in between and no record reaching age Expire, the non-empty
   keys returned are pairwise distinct; and Generate never returns the key of
   a record of another device that is younger than Expire. *)
C2_ReturnedKeysDistinct ==
    /\ \A m, n \in DOMAIN trail :
          (m < n /\ DistinctDevices(m, n) /\ trail[m].fresh
                 /\ trail[m].Key # "" /\ trail[n].Key # "")
             => trail[m].Key # trail[n].Key
    /\ \A p \in Procs :
          (GenerateReturning(p) /\ key[p] # "" /\ key[p] \in DOMAIN keys)
             => \/ heap[keys[key[p]]].DeviceID = arg[p]
                \/ now - heap[keys[key[p]]].Time >= Expire

(* C3: when Generate(d) returns a non-empty key k, the key index maps k to a
   record of device d and the device index maps d to that same record. *)
C3_ReturnedKeyIsBound ==
    \A p \in Procs :
       (GenerateReturning(p) /\ key[p] # "")
          => /\ key[p] \in DOMAIN keys
             /\ arg[p] \in DOMAIN devices
             /\ devices[arg[p]] = keys[key[p]]
             /\ heap[keys[key[p]]].DeviceID = arg[p]
             /\ heap[keys[key[p]]].Key = key[p]

(* C4: GetDeviceID(k) returns a non-empty device identifier exactly when k is
   in the key index with now - Time < Expire, and then it is the DeviceID of
   that record; otherwise it returns the empty string. *)
C4_GetDeviceIDResult ==
    [][\A p \in Procs :
          GetDeviceIDStep(p) =>
             LET k == arg[p]
                 valid == k \in DOMAIN keys /\ now - heap[keys[k]].Time < Expire
             IN /\ (deviceID'[p] # "") <=> valid
                /\ valid => deviceID'[p] = heap[keys[k]].DeviceID
                /\ ~valid => deviceID'[p] = ""]_vars

\* a GetDeviceID call is returning the device of a record it found
C4_Witness ==
    \E p \in Procs :
       /\ GetDeviceIDReturning(p)
       /\ arg[p] \in DOMAIN pre.keys
       /\ deviceID[p] = pre.heap[pre.keys[arg[p]]].DeviceID
       /\ deviceID[p] \in DeviceIDs

(* C5: the first GetDeviceID(k) after a Generate(d) stored k, within Expire and
   with no Generate(d) in between, returns d; every later GetDeviceID(k)
   returns the empty string until a Generate stores the string k again. *)
C5_SingleUseRedemption ==
    [][\A p \in Procs :
          GetDeviceIDStep(p) =>
             /\ (arg[p] \in DOMAIN issued /\ now - issued[arg[p]].Time < Expire)
                   => deviceID'[p] = issued[arg[p]].DeviceID
             /\ arg[p] \in redeemed => deviceID'[p] = ""]_vars

\* a GetDeviceID call for a key that was redeemed before is returning ""
C5_Witness ==
    \E p \in Procs :
       /\ GetDeviceIDReturning(p)
       /\ arg[p] \in redeemed
       /\ arg[p] \notin DOMAIN pre.keys
       /\ deviceID[p] = ""

\* the two calls that precede the running GetDeviceID were Generate calls for
\* the same device and each returned a key
TwoGeneratesSameDevice ==
    /\ Len(trail) >= 2
    /\ trail[Len(trail) - 1].DeviceID = trail[Len(trail)].DeviceID
    /\ trail[Len(trail) - 1].Key # ""
    /\ trail[Len(trail)].Key # ""

(* C6: after Generate(d) returned k1 and a following Generate(d) returned k2,
   GetDeviceID(k1) returns the empty string and only GetDeviceID(k2) returns
   d, whatever strings the renderer drew. *)
C6_FirstKeyDead ==
    \A p \in Procs :
       (GetDeviceIDReturning(p) /\ TwoGeneratesSameDevice) =>
          LET k1 == trail[Len(trail) - 1].Key
              k2 == trail[Len(trail)].Key
              d == trail[Len(trail)].DeviceID
          IN /\ arg[p] = k1 => deviceID[p] = ""
             /\ deviceID[p] = d => arg[p] = k2

(* C7: GetDeviceID(k) called when at least Expire has passed since the
   Generate that stored k (age = Expire included) returns the empty string
   and removes the record from both indexes, and a following GetDeviceID(k)
   returns the empty string and finds no record. *)
C7_ExpiredKeyPurged ==
    [][\A p \in Procs :
          GetDeviceIDStep(p) =>
             /\ (arg[p] \in DOMAIN issued /\ now - issued[arg[p]].Time >= Expire)
                   => /\ deviceID'[p] = ""
                      /\ arg[p] \notin DOMAIN keys'
                      /\ issued[arg[p]].DeviceID \notin DOMAIN devices'
                      /\ \A a \in DOMAIN heap' : heap'[a].Key # arg[p]
             /\ arg[p] \in redeemed
                   => /\ deviceID'[p] = ""
                      /\ arg[p] \notin DOMAIN keys
                      /\ store' = store]_vars

\* a GetDeviceID call found a record of age exactly Expire
C7_Witness ==
    \E p \in Procs :
       /\ GetDeviceIDReturning(p)
       /\ arg[p] \in DOMAIN pre.keys
       /\ pre.now - pre.heap[pre.keys[arg[p]]].Time = Expire
       /\ deviceID[p] = ""
       /\ arg[p] \notin DOMAIN keys

(* C8: GetDeviceID(k) for a key absent from the key index returns the empty
   string and leaves both indexes, contents and size, as they were. *)
C8_MissChangesNothing ==
    \A p \in Procs :
       (GetDeviceIDReturning(p) /\ arg[p] \notin DOMAIN pre.keys) =>
          /\ deviceID[p] = ""
          /\ devices = pre.devices
          /\ keys = pre.keys
          /\ heap = pre.heap
          /\ Cardinality(DOMAIN devices) = Cardinality(DOMAIN pre.devices)
          /\ Cardinality(DOMAIN keys) = Cardinality(DOMAIN pre.keys)

\* a GetDeviceID call missed while the store holds an expired record
C8_Witness ==
    \E p \in Procs :
       /\ GetDeviceIDReturning(p)
       /\ arg[p] \notin DOMAIN pre.keys
       /\ \E a \in DOMAIN pre.heap : pre.now - pre.heap[a].Time >= Expire

(* C9: when Generate(d) exhausts its attempts and d held a record at the
   call, d has no record afterwards, d's previous key is gone from the key
   index, and nothing else in the two indexes has changed. *)
C9_ExhaustedDropsOldKey ==
    \A p \in Procs :
       (GenerateExhausted(p) /\ arg[p] \in DOMAIN pre.devices) =>
          LET a0 == pre.devices[arg[p]]
              old == pre.heap[a0]
          IN /\ arg[p] \notin DOMAIN devices
             /\ old.Key \in DOMAIN keys => heap[keys[old.Key]].DeviceID # arg[p]
             /\ devices = [x \in DOMAIN pre.devices \ {arg[p]} |-> pre.devices[x]]
             /\ keys = [x \in DOMAIN pre.keys \ {old.Key} |-> pre.keys[x]]
             /\ heap = [a \in DOMAIN pre.heap \ {a0} |-> pre.heap[a]]

\* a Generate call for a device that held a record has exhausted its attempts
C9_Witness ==
    \E p \in Procs :
       /\ GenerateExhausted(p)
       /\ arg[p] \in DOMAIN pre.devices
       /\ keys # EmptyMap

(* C10: with a renderer that always returns the same string K, Generate(d1)
   on an empty store returns K; Generate(d2) while d1's record is younger than
   Expire exhausts its attempts, returns the empty string and leaves K bound
   to d1; once the record is at least Expire old, Generate(d2) purges it and
   returns K, and GetDeviceID(K) then returns d2. *)
C10_ReclaimOnCollision ==
    /\ \A p \in Procs :
          (GenerateReturning(p) /\ Len(Dictionary) = 1) =>
             LET K == CHOOSE k \in DictionaryGenerate(Dictionary, Length) : TRUE
                 held == K \in DOMAIN pre.keys /\ pre.heap[pre.keys[K]].DeviceID # arg[p]
             IN /\ pre.keys = EmptyMap => key[p] = K
                /\ (held /\ now - pre.heap[pre.keys[K]].Time < Expire)
                      => /\ key[p] = ""
                         /\ K \in DOMAIN keys
                         /\ heap[keys[K]] = pre.heap[pre.keys[K]]
                /\ (held /\ pre.now - pre.heap[pre.keys[K]].Time >= Expire)
                      => /\ key[p] = K
                         /\ pre.heap[pre.keys[K]].DeviceID \notin DOMAIN devices
                         /\ heap[keys[K]].DeviceID = arg[p]
    /\ \A p \in Procs :
          (GetDeviceIDReturning(p) /\ Len(Dictionary) = 1 /\ Len(trail) >= 1) =>
             LET last == trail[Len(trail)]
             IN (arg[p] = last.Key /\ last.stored /\ arg[p] \in DOMAIN pre.keys
                   /\ pre.now - pre.heap[pre.keys[arg[p]]].Time < Expire)
                   => deviceID[p] = last.DeviceID

\* the step in which caller p runs Generate up to its retry loop
GenerateBeginStep(p) == pc[p] = "gen_lock" /\ pc'[p] # "gen_lock"

\* the step in which caller p returns from Generate
GenerateReturnStep(p) == pc[p] = "gen_unlock" /\ pc'[p] = "idle"

\* the step in which caller p returns from GetDeviceID
GetDeviceIDReturnStep(p) == pc[p] = "get_unlock" /\ pc'[p] = "idle"

\* no call is between Lock and Unlock
BetweenOperations == mu = NoOwner

(* C12: between operations the device index and the key index are two
   indexes over the same records: devices[d] is a record of device d that
   keys reaches under its Key, keys[k] is a record of key k that devices
   reaches under its DeviceID, and both indexes have the same size. *)
C12_TwoIndexesOneRecordSet ==
    BetweenOperations =>
       /\ \A d \in DOMAIN devices :
             /\ devices[d] \in DOMAIN heap
             /\ heap[devices[d]].DeviceID = d
             /\ heap[devices[d]].Key \in DOMAIN keys
             /\ keys[heap[devices[d]].Key] = devices[d]
       /\ \A k \in DOMAIN keys :
             /\ keys[k] \in DOMAIN heap
             /\ heap[keys[k]].Key = k
             /\ heap[keys[k]].DeviceID \in DOMAIN devices
             /\ devices[heap[keys[k]].DeviceID] = keys[k]
       /\ Cardinality(DOMAIN devices) = Cardinality(DOMAIN keys)

\* between operations, with two records in the store, one of them expired
C12_Witness ==
    /\ BetweenOperations
    /\ Cardinality(DOMAIN devices) = 2
    /\ Cardinality(DOMAIN keys) = 2
    /\ \E a \in DOMAIN heap : now - heap[a].Time >= Expire

(* C13: in every reachable state each device identifier has at most one key
   string that the key index maps to a record of that device. *)
C13_OneKeyPerDevice ==
    \A d \in DeviceIDs :
       Cardinality({k \in DOMAIN keys : heap[keys[k]].DeviceID = d}) <= 1

\* a device holds one key after a second Generate gave it a different string
C13_Witness ==
    /\ Len(trail) >= 2
    /\ trail[Len(trail) - 1].DeviceID = trail[Len(trail)].DeviceID
    /\ trail[Len(trail) - 1].stored
    /\ trail[Len(trail)].stored
    /\ trail[Len(trail) - 1].Key # trail[Len(trail)].Key
    /\ Cardinality({k \in DOMAIN keys :
                       heap[keys[k]].DeviceID = trail[Len(trail)].DeviceID}) = 1

(* C16: a record younger than Expire is changed by no step other than a
   Generate for its own device or a GetDeviceID for its own key: it stays,
   unchanged, in both indexes (a colliding candidate is dropped, the record
   is not overwritten), and a GetDeviceID for its key returns its device. *)
C16_LiveKeyNotTakenOver ==
    [][\A a \in DOMAIN heap :
          LET r == heap[a]
              touched == \E p \in Procs :
                            \/ GenerateBeginStep(p) /\ arg[p] = r.DeviceID
                            \/ GetDeviceIDStep(p) /\ arg[p] = r.Key
          IN now - r.Time < Expire =>
                /\ ~touched =>
                      /\ a \in DOMAIN heap'
                      /\ heap'[a] = r
                      /\ r.DeviceID \in DOMAIN devices'
                      /\ devices'[r.DeviceID] = a
                      /\ r.Key \in DOMAIN keys'
                      /\ keys'[r.Key] = a
                /\ \A p \in Procs :
                      (GetDeviceIDStep(p) /\ arg[p] = r.Key)
                         => deviceID'[p] = r.DeviceID]_vars

\* a Generate call has drawn the key of another device's record younger than Expire
C16_Witness ==
    \E p \in Procs :
       /\ pc[p] \in {"gen_loop", "gen_unlock"}
       /\ i[p] >= 1
       /\ key[p] \in DOMAIN keys
       /\ heap[keys[key[p]]].DeviceID # arg[p]
       /\ now - heap[keys[key[p]]].Time < Expire

\* the records the running call has removed since it took the lock
Removed == {r \in Range(pre.heap) : r \notin Range(heap)}

\* the record at address a of the snapshot is still in place in both indexes
Kept(a) ==
    /\ a \in DOMAIN heap
    /\ heap[a] = pre.heap[a]
    /\ pre.heap[a].DeviceID \in DOMAIN devices
    /\ devices[pre.heap[a].DeviceID] = a
    /\ pre.heap[a].Key \in DOMAIN keys
    /\ keys[pre.heap[a].Key] = a

(* C17: a Generate(d) call removes at most d's previous record and one
   expired record, the one under the key it then stores; a GetDeviceID(k)
   call removes at most the record of k; every other record, expired or
   not, stays as it was; and the passage of time changes neither index. *)
C17_RemovedOnlyWhenTouched ==
    [][/\ \A p \in Procs :
             GenerateReturnStep(p) =>
                /\ Cardinality(Removed) <= 2
                /\ Cardinality({r \in Removed : r.DeviceID # arg[p]}) <= 1
                /\ \A a \in DOMAIN pre.heap :
                      \/ pre.heap[a].DeviceID = arg[p]
                      \/ /\ i[p] < MaxIter
                         /\ pre.heap[a].Key = key[p]
                         /\ now - pre.heap[a].Time >= Expire
                      \/ Kept(a)
       /\ \A p \in Procs :
             GetDeviceIDReturnStep(p) =>
                /\ Cardinality(Removed) <= 1
                /\ \A a \in DOMAIN pre.heap : pre.heap[a].Key = arg[p] \/ Kept(a)
       /\ now' # now => store' = store]_vars

\* a Generate call has removed its device's record and reclaimed an expired one
C17_Witness ==
    \E p \in Procs :
       /\ GenerateReturning(p)
       /\ Cardinality(Removed) = 2
       /\ \E r \in Removed : r.DeviceID # arg[p] /\ r.Key = key[p]

(* C18: configuration is defaulted by Generate only: the first Generate sets
   each unset field to its default (Length 6, Expire 30 minutes, MaxIter 1000,
   Dictionary DictAlfa) and leaves each set field as it is; no other step
   changes the configuration, and none does after the first Generate; a
   GetDeviceID before the first Generate returns the empty string and leaves
   the store uninitialised. *)
C18_DefaultingOnceInGenerate ==
    [][/\ \A p \in Procs :
             (GenerateBeginStep(p) /\ devicesNil) =>
                /\ Length' = (IF Length = 0 THEN 6 ELSE Length)
                /\ Expire' = (IF Expire = 0 THEN 30 ELSE Expire)
                /\ MaxIter' = (IF MaxIter = 0 THEN 1000 ELSE MaxIter)
                /\ Dictionary' = (IF Len(Dictionary) = 0 THEN DictAlfa ELSE Dictionary)
                /\ ~devicesNil' /\ ~keysNil'
       /\ (~ \E p \in Procs : GenerateBeginStep(p)) => config' = config
       /\ ~devicesNil => config' = config
       /\ \A p \in Procs :
             (GetDeviceIDStep(p) /\ keysNil) =>
                /\ deviceID'[p] = ""
                /\ config' = config
                /\ store' = store
                /\ keysNil' /\ devicesNil']_vars

\* after the first Generate: MaxIter was defaulted, Length and Expire were kept
C18_Witness ==
    /\ ~devicesNil
    /\ MaxIter = 1000
    /\ Length = 1
    /\ Expire = 20
    /\ Dictionary = <<"A">>

\* caller p is between Lock and Unlock
InCritical(p) == pc[p] \in {"gen_loop", "gen_unlock", "get_unlock"}

\* the step is one of caller p's own
StepOf(p) ==
    \/ pc'[p] # pc[p]
    \/ i'[p] # i[p]
    \/ key'[p] # key[p]

\* all callers have returned, the calls made were one Generate per caller for
\* pairwise distinct devices, and the renderer never returned a string twice
FreshConcurrentGenerates ==
    /\ \A p \in procs : pc[p] = "idle"
    /\ Len(trail) = Cardinality(procs)
    /\ DistinctDevices(1, Len(trail))
    /\ Cardinality(drawn) = Cardinality(procs)
    /\ ~repeated

(* C11: when the callers run Generate concurrently for pairwise distinct
   devices and the renderer returns a new string at every call, every call
   returns a non-empty key, the keys are pairwise distinct, each is bound to
   its device, and both indexes hold exactly one record per caller. *)
C11_ConcurrentGenerateNoLostUpdate ==
    FreshConcurrentGenerates =>
       /\ \A n \in DOMAIN trail :
             /\ trail[n].Key # ""
             /\ trail[n].Key \in DOMAIN keys
             /\ trail[n].DeviceID \in DOMAIN devices
             /\ devices[trail[n].DeviceID] = keys[trail[n].Key]
             /\ heap[keys[trail[n].Key]].DeviceID = trail[n].DeviceID
       /\ \A m, n \in DOMAIN trail : m # n => trail[m].Key # trail[n].Key
       /\ Cardinality(DOMAIN devices) = Cardinality(procs)
       /\ Cardinality(DOMAIN keys) = Cardinality(procs)
       /\ Cardinality(DOMAIN heap) = Cardinality(procs)

\* two callers have finished their concurrent Generate calls
C11_Witness ==
    /\ Cardinality(procs) = 2
    /\ FreshConcurrentGenerates
    /\ Cardinality(DOMAIN keys) = 2

\* at most one caller is between Lock and Unlock, and it is the one mu names
MutualExclusion ==
    /\ \A p, q \in Procs : (InCritical(p) /\ InCritical(q)) => p = q
    /\ \A p \in Procs : InCritical(p) <=> mu = p

(* C14: at most one caller is between Lock and Unlock; while a caller is
   there, the store and the configuration are changed by its steps only, and
   no other caller moves past its Lock, so the calls take effect one after
   the other; when two callers call GetDeviceID for the same valid key, the
   first to get the lock receives the device and the key is gone for the
   other, which receives the empty string. *)
C14_CallsAreAtomic ==
    [][/\ MutualExclusion
       /\ MutualExclusion'
       /\ \A p \in Procs :
             InCritical(p) =>
                \/ StepOf(p) /\ \A q \in Procs \ {p} : ~InCritical(q)'
                \/ /\ store' = store
                   /\ config' = config
                   /\ mu' = mu
                   /\ \A q \in Procs \ {p} : ~InCritical(q)'
       /\ (store' # store \/ config' # config) => \E p \in Procs : mu = p \/ mu' = p
       /\ \A p \in Procs :
             (/\ GetDeviceIDStep(p)
              /\ \E q \in Procs \ {p} : pc[q] = "get_lock" /\ arg[q] = arg[p]
              /\ arg[p] \in DOMAIN keys
              /\ now - heap[keys[arg[p]]].Time < Expire)
                => /\ deviceID'[p] = heap[keys[arg[p]]].DeviceID
                   /\ arg[p] \notin DOMAIN keys'
       /\ \A q \in Procs :
             (GetDeviceIDStep(q) /\ arg[q] \in redeemed) => deviceID'[q] = ""]_vars

\* one caller has redeemed a key the other caller is also waiting to redeem
C14_Witness ==
    \E p, q \in Procs :
       /\ p # q
       /\ pc[p] = "get_unlock"
       /\ deviceID[p] \in DeviceIDs
       /\ pc[q] = "get_lock"
       /\ arg[q] = arg[p]

\* a call has been made by caller p and has not returned
Pending(p) == pc[p] # "idle"

(* C15: the retry loop of Generate never runs more than MaxIter iterations,
   the lock is held only by a caller that is between Lock and Unlock and is
   free whenever no call is pending, some pending caller can always take a
   step, and under fair scheduling every pending call eventually returns. *)
C15_EveryCallReturns ==
    /\ [](\A p \in Procs :
             /\ i[p] <= MaxIter
             /\ pc[p] = "gen_loop" => i[p] < MaxIter)
    /\ [](mu # NoOwner => (mu \in Procs /\ InCritical(mu)))
    /\ []((\A p \in Procs : ~Pending(p)) => mu = NoOwner)
    /\ []((\E p \in Procs : Pending(p)) =>
             \/ mu # NoOwner
             \/ \E p \in Procs : pc[p] \in {"gen_lock", "get_lock"})
    /\ \A p \in Procs : Pending(p) ~> ~Pending(p)

\* a caller waits for the lock while the other has exhausted its attempts
C15_Witness ==
    \E p, q \in Procs :
       /\ pc[p] \in {"gen_lock", "get_lock"}
       /\ GenerateExhausted(q)
       /\ MaxIter > 0

----------------------------------------------------------------------------
TypeOK ==
    /\ mu \in Procs \cup {NoOwner}
    /\ now \in 0..MaxTime
    /\ \A p \in Procs : pc[p] \in {"idle", "gen_lock", "gen_loop", "gen_unlock",
                                   "get_lock", "get_unlock"}
====
